---- MODULE Spec2Model ----
(***************************************************************************)
(* Exam attempt lifecycle of the TestVerse backend: start / save / submit  *)
(* requests, manual grading, the deadline sweep and calculate_exam_result. *)
(* Every ORM statement (query, INSERT, UPDATE) is one atomic step; the     *)
(* handlers run without transaction.atomic, so steps of different handlers *)
(* interleave freely.  An in-memory model instance is a copy of the row    *)
(* taken when it was loaded, and Model.save() writes the whole copy back.  *)
(* One exam is modelled; times are counted in ticks of 30 seconds.         *)
(***************************************************************************)
EXTENDS Integers, Sequences, FiniteSets, TLC

\* ---------------------------------------------------------------- bounds
\* ticks the clock runs past the latest resolved deadline
MaxOverrun == 1
\* rows the exam_attempts table can hold
MaxAttempts == 2
\* items in one save / submit payload
MaxBatch == 1
\* requests served in one behaviour
MaxRequests == 3
\* handlers (requests and the sweep) in flight at the same time
MaxConcurrent == 2
\* storage errors raised in one behaviour
MaxFaults == 1

\* ------------------------------------------------------- program constants
SecondsPerTick == 30
TicksPerMinute == 2
GracePeriod == 1
Null == -1
\* Python's None in a JSON or text value, and a key that a payload item does not carry
None == "None"
Absent == "absent"

\* ----------------------------------------------------------- the one exam
ExamStart == 1
ExamEnd == 2
ExamTotalMarks == 2
ExamPassingMarks == 1

Questions == {"q1", "q2"}
QuestionOrder == <<"q1", "q2">>
QuestionType == [q1 |-> "mcq", q2 |-> "descriptive"]
QuestionPoints == [q1 |-> 1, q2 |-> 1]
CorrectOption == [q1 |-> "opt1", q2 |-> "none"]

Students == {"s1"}
\* the students enrolled in the exam; s2 only acts where the sweep handles two attempts
Enrolled == {"s1", "s2"}
\* a student whose department is not among exam.allowed_departments
Outsiders == {"s3"}
ExtensionMinutes == {1}
AnswerValues == {"opt1", "opt2"}
EmptyAnswer == "empty"
GradeScores == {0, 1}

Workers == {"w1", "w2"}
Sweeper == "sweep"
Procs == Workers \cup {Sweeper}

VARIABLES now, attempts, answers, results, extension, proc, served, faults, published,
          exam, call

vars == <<now, attempts, answers, results, extension, proc, served, faults, published, exam, call>>

\* ------------------------------------------------------------ value shapes
NoAttempt == [id |-> 0, student |-> "none", start_time |-> Null, submit_time |-> Null,
              status |-> "none", total_score |-> Null, obtained_score |-> Null]

NoAnswers == [q \in {} |-> Null]

NoResponse == [status |-> 0, body |-> "none", value |-> Null]

Response(st, body, val) == [status |-> st, body |-> body, value |-> val]

\* no Result instance is loaded
NoResult == [attempt |-> 0, student |-> "none", is_published |-> FALSE]

IdleProc == [pc |-> "idle", op |-> "none", student |-> "none", payload |-> <<>>,
             att |-> NoAttempt, ans |-> NoAnswers, todo |-> <<>>, queue |-> <<>>,
             question |-> "none", score |-> Null, saved |-> 0, remaining |-> Null,
             clock |-> Null, ret |-> "none", resp |-> NoResponse, result |-> NoResult]

Terminal == {"submitted", "auto_submitted"}

AttemptIds == 1..Len(attempts)

Max(a, b) == IF a >= b THEN a ELSE b

\* rows of a queryset, newest first (Meta.ordering = ['-created_at'])
RECURSIVE NewestFirst(_, _)
NewestFirst(S, n) ==
    IF n = 0 THEN <<>>
    ELSE IF n \in S THEN <<attempts[n]>> \o NewestFirst(S, n - 1)
    ELSE NewestFirst(S, n - 1)

Filter(s, statuses) ==
    NewestFirst({i \in AttemptIds : attempts[i].student = s /\ attempts[i].status \in statuses},
                Len(attempts))

\* ------------------------------------------------- deadline resolver (code)
get_attempt_end_time(att) == ExamEnd

get_attempt_remaining_time(att, t) ==
    IF t > get_attempt_end_time(att) THEN 0
    ELSE (get_attempt_end_time(att) - t) * SecondsPerTick

is_department_allowed(s) == s \notin Outsiders

\* variant without the "Exam has ended" check of lines 268-270
check_exam_eligibility_noend(s, t) ==
    IF ~published THEN "Exam is not published yet"
    ELSE IF t < ExamStart THEN "Exam has not started yet"
    ELSE IF ~is_department_allowed(s) THEN "You are not allowed to attempt this exam"
    ELSE IF \E i \in AttemptIds : attempts[i].student = s
         THEN "You have already attempted this exam"
    ELSE "Eligible to attempt"

check_exam_eligibility(s, t) ==
    IF ~published THEN "Exam is not published yet"
    ELSE IF t < ExamStart THEN "Exam has not started yet"
    ELSE IF t > ExamEnd THEN "Exam has ended"
    ELSE IF ~is_department_allowed(s) THEN "You are not allowed to attempt this exam"
    ELSE IF \E i \in AttemptIds : attempts[i].student = s
         THEN "You have already attempted this exam"
    ELSE "Eligible to attempt"

\* ------------------------------------------------------------------- Init
\* no pure function is being evaluated
NoCall == [fn |-> "none", arg |-> <<>>, out |-> Null, done |-> FALSE]

\* the tables are empty and no request is in flight
InitTables ==
    /\ now = 0
    /\ attempts = <<>>
    /\ answers = [k \in {} |-> Null]
    /\ results = <<>>
    /\ extension = [s \in Enrolled |-> 0]
    /\ proc = [p \in Procs |-> IdleProc]
    /\ served = 0
    /\ faults = 0
    /\ published = TRUE
    /\ exam = [total_marks |-> ExamTotalMarks, passing_marks |-> ExamPassingMarks,
               questions |-> [q \in Questions |-> 0]]

Init ==
    /\ InitTables
    /\ call = NoCall

Set(p, fields) == proc' = [proc EXCEPT ![p] = fields @@ proc[p]]

FinishOp(p, o, r) == proc' = [proc EXCEPT ![p] = [pc |-> "done", op |-> o, resp |-> r] @@ IdleProc]

Finish(p, r) == FinishOp(p, proc[p].op, r)

\* the resolved deadline of section 4.1: exam.end_time plus the student's extension
ResolvedDeadline(s) == ExamEnd + extension[s] * TicksPerMinute

RECURSIVE LatestDeadline(_)
LatestDeadline(S) ==
    IF S = {} THEN ExamEnd
    ELSE LET s == CHOOSE x \in S : TRUE
         IN  Max(ResolvedDeadline(s), LatestDeadline(S \ {s}))

InFlight == Cardinality({p \in Procs : proc[p].pc # "idle"})

\* a handler is entered
Enter(p) ==
    /\ proc[p].pc = "idle"
    /\ InFlight < MaxConcurrent

\* a request is accepted by worker w
Accept(w) ==
    /\ Enter(w)
    /\ served < MaxRequests
    /\ served' = served + 1

\* the wall clock
Tick ==
    /\ now < LatestDeadline(Students) + MaxOverrun
    /\ now' = now + 1
    /\ UNCHANGED <<attempts, answers, results, extension, proc, served, faults, published, exam, call>>

\* StaffExamTimeExtensionView.create: update_or_create of the (exam, student) row
GrantExtension(s, m) ==
    /\ extension[s] # m
    /\ extension' = [extension EXCEPT ![s] = m]
    /\ UNCHANGED <<now, attempts, answers, results, proc, served, faults, published, exam, call>>

\* the response leaves the worker
Respond(w) ==
    /\ proc[w].pc = "done"
    /\ proc' = [proc EXCEPT ![w] = IdleProc]
    /\ UNCHANGED <<now, attempts, answers, results, extension, served, faults, published, exam, call>>

\* ------------------------------------------------------- grading (helpers.py)
auto_evaluate_mcq(q, student_answer) ==
    IF QuestionType[q] \in {"mcq", "multiple_mcq"} /\ student_answer = CorrectOption[q]
    THEN QuestionPoints[q] ELSE 0

Manual(ans) == {q \in DOMAIN ans : QuestionType[q] \in {"descriptive", "coding"}}

compute_grading_status(ans) ==
    LET graded == {q \in Manual(ans) : ans[q].score # Null}
    IN  IF Manual(ans) = {} THEN "fully_graded"
        ELSE IF graded = {} THEN "pending"
        ELSE IF Cardinality(graded) < Cardinality(Manual(ans)) THEN "partially_graded"
        ELSE "fully_graded"

RECURSIVE SumPoints(_)
SumPoints(S) ==
    IF S = {} THEN 0
    ELSE LET q == CHOOSE x \in S : TRUE
         IN  QuestionPoints[q] + SumPoints(S \ {q})

RECURSIVE SumScores(_, _)
SumScores(ans, S) ==
    IF S = {} THEN 0
    ELSE LET q == CHOOSE x \in S : TRUE
         IN  (IF ans[q].score # Null THEN ans[q].score ELSE 0) + SumScores(ans, S \ {q})

\* variant that leaves the ratio unscaled
Percentage_ratio(obtained, total) == IF total > 0 THEN obtained \div total ELSE 0

Percentage(obtained, total) == IF total > 0 THEN (obtained * 100) \div total ELSE 0

\* variant that decides pass/fail before the manual answers are graded
ResultFields_ungated(att, ans, t) ==
    LET obtained == SumScores(ans, DOMAIN ans)
    IN  [total_marks |-> exam.total_marks,
         obtained_marks |-> obtained,
         percentage |-> Percentage(obtained, exam.total_marks),
         status |-> IF obtained >= exam.passing_marks THEN "pass" ELSE "fail",
         grading_status |-> compute_grading_status(ans),
         submitted_at |-> IF att.submit_time # Null THEN att.submit_time ELSE t]

ResultFields(att, ans, t) ==
    LET obtained == SumScores(ans, DOMAIN ans)
        gs == compute_grading_status(ans)
    IN  [total_marks |-> exam.total_marks,
         obtained_marks |-> obtained,
         percentage |-> Percentage(obtained, exam.total_marks),
         status |-> IF gs = "fully_graded"
                    THEN (IF obtained >= exam.passing_marks THEN "pass" ELSE "fail")
                    ELSE "pending",
         grading_status |-> gs,
         submitted_at |-> IF att.submit_time # Null THEN att.submit_time ELSE t]

\* the attempts that have a row in the results table
ResultIds == {results[k].attempt : k \in 1..Len(results)}

\* the Result row of attempt a
ResultOf(a) == results[CHOOSE k \in 1..Len(results) : results[k].attempt = a]

\* variant that inserts a row on every recompute (Result.objects.create)
UpsertResult_create(a, fields) ==
    Append(results, fields @@ [attempt |-> a, student |-> attempts[a].student,
                               is_published |-> FALSE])

\* Result.objects.update_or_create(attempt=attempt, defaults=...)
UpsertResult(a, fields) ==
    IF a \in ResultIds
    THEN [k \in 1..Len(results) |->
             IF results[k].attempt = a THEN fields @@ results[k] ELSE results[k]]
    ELSE Append(results, fields @@ [attempt |-> a, student |-> attempts[a].student,
                                    is_published |-> FALSE])

RECURSIVE SelectSeq2(_, _)
SelectSeq2(seq, S) ==
    IF seq = <<>> THEN <<>>
    ELSE (IF Head(seq) \in S THEN <<Head(seq)>> ELSE <<>>) \o SelectSeq2(Tail(seq), S)

\* calculate_exam_result, line 205: answers = list(attempt.answers...all())
Calc_read(p) ==
    /\ proc[p].pc = "calc_read"
    /\ LET a == proc[p].att.id
           qs == {q \in Questions : <<a, q>> \in DOMAIN answers}
           snap == [q \in qs |-> answers[<<a, q>>]]
           mcqs == SelectSeq2(QuestionOrder, {q \in qs : QuestionType[q] \in {"mcq", "multiple_mcq"}})
       IN  Set(p, [pc |-> IF mcqs = <<>> THEN "calc_attempt" ELSE "calc_answer",
                   ans |-> snap, todo |-> mcqs])
    /\ UNCHANGED <<now, attempts, answers, results, extension, served, faults, published, exam, call>>

\* lines 207-214: answer.score = auto_evaluate_mcq(...); answer.save()
Calc_answer(p) ==
    /\ proc[p].pc = "calc_answer"
    /\ LET q == Head(proc[p].todo)
           row == [proc[p].ans[q] EXCEPT !.score = auto_evaluate_mcq(q, proc[p].ans[q].answer)]
       IN  /\ answers' = [answers EXCEPT ![<<proc[p].att.id, q>>] = row]
           /\ Set(p, [pc |-> IF Tail(proc[p].todo) = <<>> THEN "calc_attempt" ELSE "calc_answer",
                      ans |-> [proc[p].ans EXCEPT ![q] = row], todo |-> Tail(proc[p].todo)])
    /\ UNCHANGED <<now, attempts, results, extension, served, faults, published, exam, call>>

\* lines 219-225: attempt.total_score / obtained_score; attempt.save()
Calc_attempt(p) ==
    /\ proc[p].pc = "calc_attempt"
    /\ LET obj == [proc[p].att EXCEPT !.total_score = exam.total_marks,
                                      !.obtained_score = SumScores(proc[p].ans, DOMAIN proc[p].ans)]
       IN  /\ attempts' = [attempts EXCEPT ![obj.id] = obj]
           /\ Set(p, [pc |-> "calc_result", att |-> obj])
    /\ UNCHANGED <<now, answers, results, extension, served, faults, published, exam, call>>

\* lines 228-250: grading status, pass/fail, Result.objects.update_or_create
Calc_result(p) ==
    /\ proc[p].pc = "calc_result"
    /\ results' = UpsertResult(proc[p].att.id, ResultFields(proc[p].att, proc[p].ans, now))
    /\ IF proc[p].ret = "done"
       THEN Finish(p, proc[p].resp)
       ELSE Set(p, [pc |-> proc[p].ret, att |-> NoAttempt, ans |-> NoAnswers, ret |-> "none"])
    /\ UNCHANGED <<now, attempts, answers, extension, served, faults, published, exam, call>>

calculate_exam_result(p) == Calc_read(p) \/ Calc_answer(p) \/ Calc_attempt(p) \/ Calc_result(p)

\* ----------------------------------------- StudentStartExamView.create
\* lines 144-175: in-progress attempt -> expire or resume
Start_existing(w, s) ==
    /\ Accept(w)
    /\ LET found == Filter(s, {"in_progress"})
       IN  IF found # <<>>
           THEN LET a == Head(found)
                    remaining == get_attempt_remaining_time(a, now)
                IN  IF remaining <= 0 \/ now > ExamEnd
                    THEN Set(w, [pc |-> "start_expire", op |-> "start", student |-> s,
                                 att |-> [a EXCEPT !.submit_time = now, !.status = "auto_submitted"]])
                    ELSE FinishOp(w, "start", Response(200, "Exam resumed", remaining))
           ELSE Set(w, [pc |-> "start_submitted", op |-> "start", student |-> s])
    /\ UNCHANGED <<now, attempts, answers, results, extension, faults, published, exam, call>>

\* line 158: existing_attempt.save(), then calculate_exam_result (line 159)
Start_expire(w) ==
    /\ proc[w].pc = "start_expire"
    /\ attempts' = [attempts EXCEPT ![proc[w].att.id] = proc[w].att]
    /\ Set(w, [pc |-> "calc_read", ret |-> "done",
               resp |-> Response(400, "Exam time has expired", Null)])
    /\ UNCHANGED <<now, answers, results, extension, served, faults, published, exam, call>>

\* variant without the terminal-attempt query: the start goes on to the eligibility check
Start_submitted_unchecked(w) ==
    /\ proc[w].pc = "start_submitted"
    /\ Set(w, [pc |-> "start_eligibility"])
    /\ UNCHANGED <<now, attempts, answers, results, extension, served, faults, published, exam, call>>

\* lines 178-187: terminal attempt -> 409
Start_submitted(w) ==
    /\ proc[w].pc = "start_submitted"
    /\ IF Filter(proc[w].student, Terminal) # <<>>
       THEN Finish(w, Response(409, "You have already submitted this exam", Null))
       ELSE Set(w, [pc |-> "start_eligibility"])
    /\ UNCHANGED <<now, attempts, answers, results, extension, served, faults, published, exam, call>>

\* line 190-192: check_exam_eligibility
Start_eligibility(w) ==
    /\ proc[w].pc = "start_eligibility"
    /\ LET message == check_exam_eligibility(proc[w].student, now)
       IN  IF message # "Eligible to attempt"
           THEN Finish(w, Response(400, message, Null))
           ELSE Set(w, [pc |-> "start_create"])
    /\ UNCHANGED <<now, attempts, answers, results, extension, served, faults, published, exam, call>>

\* unique_together = ['exam', 'student'] on exam_attempts
\* variant without the unique_together constraint on (exam, student)
AttemptUnique_unconstrained(s) == TRUE

AttemptUnique(s) == \A i \in AttemptIds : attempts[i].student # s

\* lines 195-202: ExamAttempt.objects.create, remaining time
Start_create(w) ==
    /\ proc[w].pc = "start_create"
    /\ Len(attempts) < MaxAttempts
    /\ IF AttemptUnique(proc[w].student)
       THEN LET a == [id |-> Len(attempts) + 1, student |-> proc[w].student, start_time |-> now,
                      submit_time |-> Null, status |-> "in_progress",
                      total_score |-> Null, obtained_score |-> Null]
                todo == SelectSeq2(QuestionOrder, DOMAIN exam.questions)
            IN  /\ attempts' = Append(attempts, a)
                /\ IF todo = <<>>
                   THEN Finish(w, Response(201, "Exam attempt started",
                                           get_attempt_remaining_time(a, now)))
                   ELSE Set(w, [pc |-> "start_answers", att |-> a, todo |-> todo,
                                remaining |-> get_attempt_remaining_time(a, now)])
       ELSE /\ Finish(w, Response(500, "IntegrityError", Null))
            /\ UNCHANGED attempts
    /\ UNCHANGED <<now, answers, results, extension, served, faults, published, exam, call>>

\* lines 205-221: one Answer.objects.create per question, then 201
Start_answers(w) ==
    /\ proc[w].pc = "start_answers"
    /\ LET q == Head(proc[w].todo)
       IN  /\ answers' = (<<proc[w].att.id, q>> :> [answer |-> EmptyAnswer, code |-> None, score |-> Null]) @@ answers
           /\ IF Tail(proc[w].todo) = <<>>
              THEN Finish(w, Response(201, "Exam attempt started", proc[w].remaining))
              ELSE Set(w, [todo |-> Tail(proc[w].todo)])
    /\ UNCHANGED <<now, attempts, results, extension, served, faults, published, exam, call>>

StudentStartExamView(w) ==
    \/ \E s \in Students : Start_existing(w, s)
    \/ Start_expire(w) \/ Start_submitted(w) \/ Start_eligibility(w)
    \/ Start_create(w) \/ Start_answers(w)

\* ------------------------------------------------ request payloads
RECURSIVE SeqsUpTo(_, _)
SeqsUpTo(S, n) ==
    IF n = 0 THEN {<<>>}
    ELSE SeqsUpTo(S, n - 1) \cup {Append(sq, x) : sq \in {t \in SeqsUpTo(S, n - 1) : Len(t) = n - 1}, x \in S}

Payloads ==
    LET Items == {[question |-> "q1", answer |-> v, code |-> Absent] : v \in AnswerValues}
                 \cup {[question |-> "q2", answer |-> "text", code |-> Absent]}
    IN  SeqsUpTo(Items, MaxBatch)

\* variant that stores the answer of an item as it was sent
PersistedRow_raw(row, q, item) ==
    [row EXCEPT !.answer = IF item.answer # Absent THEN item.answer ELSE @,
                !.code = IF item.code # Absent THEN item.code ELSE @]

\* _persist_attempt_answers, lines 256-285: the fields that one item writes to its row
PersistedRow(row, q, item) ==
    LET has_answer_field == item.answer # Absent
        has_code_field == item.code # Absent
        normalized_answer == IF item.answer = None THEN EmptyAnswer ELSE item.answer
    IN  [row EXCEPT
            !.answer = IF has_answer_field THEN normalized_answer ELSE @,
            !.code = IF has_code_field THEN item.code
                     ELSE IF QuestionType[q] = "coding" /\ has_answer_field /\ item.answer # None
                     THEN item.answer ELSE @]

\* variant that counts every item of the batch as saved
persist_attempt_answers_counting(w, after) ==
    LET item == Head(proc[w].payload)
        key == <<proc[w].att.id, item.question>>
        rest == Tail(proc[w].payload)
        hit == item.question # None /\ key \in DOMAIN answers
                /\ (item.answer # Absent \/ item.code # Absent)
    IN  /\ answers' = IF hit
                      THEN [answers EXCEPT ![key] = PersistedRow(@, item.question, item)]
                      ELSE answers
        /\ Set(w, [payload |-> rest, saved |-> proc[w].saved + 1,
                   pc |-> IF rest = <<>> THEN after ELSE proc[w].pc])

\* _persist_attempt_answers, lines 248-285: one item of the batch
persist_attempt_answers(w, after) ==
    LET item == Head(proc[w].payload)
        key == <<proc[w].att.id, item.question>>
        rest == Tail(proc[w].payload)
        hit == item.question # None /\ key \in DOMAIN answers
                /\ (item.answer # Absent \/ item.code # Absent)
    IN  /\ answers' = IF hit
                      THEN [answers EXCEPT ![key] = PersistedRow(@, item.question, item)]
                      ELSE answers
        /\ Set(w, [payload |-> rest, saved |-> proc[w].saved + (IF hit THEN 1 ELSE 0),
                   pc |-> IF rest = <<>> THEN after ELSE proc[w].pc])

\* ----------------------------------------- StudentSaveAnswerView.update
\* variant without the deadline check of lines 316-320
Save_get_nodeadline(w, s, payload) ==
    /\ Accept(w)
    /\ LET found == Filter(s, {"in_progress"})
       IN  IF found = <<>>
           THEN FinishOp(w, "save", Response(404, "Active attempt not found", Null))
           ELSE IF Len(found) > 1
           THEN FinishOp(w, "save", Response(500, "MultipleObjectsReturned", Null))
           ELSE IF payload = <<>>
           THEN FinishOp(w, "save", Response(400, "Invalid answer payload", Null))
           ELSE Set(w, [pc |-> "save_persist", op |-> "save", student |-> s,
                        payload |-> payload, att |-> Head(found)])
    /\ UNCHANGED <<now, attempts, answers, results, extension, faults, published, exam, call>>

\* lines 305-324: the in-progress attempt, the grace window, the payload
Save_get(w, s, payload) ==
    /\ Accept(w)
    /\ LET found == Filter(s, {"in_progress"})
       IN  IF found = <<>>
           THEN FinishOp(w, "save", Response(404, "Active attempt not found", Null))
           ELSE IF Len(found) > 1
           THEN FinishOp(w, "save", Response(500, "MultipleObjectsReturned", Null))
           ELSE IF now > get_attempt_end_time(Head(found)) + GracePeriod
           THEN FinishOp(w, "save", Response(400, "Exam time has expired", Null))
           ELSE IF payload = <<>>
           THEN FinishOp(w, "save", Response(400, "Invalid answer payload", Null))
           ELSE Set(w, [pc |-> "save_persist", op |-> "save", student |-> s,
                        payload |-> payload, att |-> Head(found)])
    /\ UNCHANGED <<now, attempts, answers, results, extension, faults, published, exam, call>>

\* line 326: _persist_attempt_answers, then the 200 response with saved_count
Save_persist(w) ==
    /\ proc[w].pc = "save_persist"
    /\ persist_attempt_answers(w, "save_respond")
    /\ UNCHANGED <<now, attempts, results, extension, served, faults, published, exam, call>>

Save_respond(w) ==
    /\ proc[w].pc = "save_respond"
    /\ Finish(w, Response(200, "saved", proc[w].saved))
    /\ UNCHANGED <<now, attempts, answers, results, extension, served, faults, published, exam, call>>

StudentSaveAnswerView(w) ==
    \/ \E s \in Students, payload \in Payloads : Save_get(w, s, payload)
    \/ Save_persist(w) \/ Save_respond(w)

\* ----------------------------------------- StudentSubmitExamView.create
\* lines 347-353: attempt = ...filter(status='in_progress').first()
Submit_get(w, s, payload) ==
    /\ Accept(w)
    /\ LET found == Filter(s, {"in_progress"})
       IN  IF found = <<>>
           THEN Set(w, [pc |-> "submit_already", op |-> "submit", student |-> s])
           ELSE Set(w, [pc |-> IF payload = <<>> THEN "submit_save" ELSE "submit_persist",
                        op |-> "submit", student |-> s, payload |-> payload, att |-> Head(found)])
    /\ UNCHANGED <<now, attempts, answers, results, extension, faults, published, exam, call>>

\* line 355: _persist_attempt_answers(attempt, request.data)
Submit_persist(w) ==
    /\ proc[w].pc = "submit_persist"
    /\ persist_attempt_answers(w, "submit_save")
    /\ UNCHANGED <<now, attempts, results, extension, served, faults, published, exam, call>>

\* lines 358-363: submit_time = now, status = submitted, save, calculate_exam_result
Submit_save(w) ==
    /\ proc[w].pc = "submit_save"
    /\ LET obj == [proc[w].att EXCEPT !.submit_time = now, !.status = "submitted"]
       IN  /\ attempts' = [attempts EXCEPT ![obj.id] = obj]
           /\ Set(w, [pc |-> "calc_read", att |-> obj, ret |-> "done",
                      resp |-> Response(200, "Exam submitted successfully", now)])
    /\ UNCHANGED <<now, answers, results, extension, served, faults, published, exam, call>>

\* lines 372-385: already submitted -> success with the stored submit_time
\* variant that answers with the current time instead of the stored submit_time
Submit_already_now(w) ==
    /\ proc[w].pc = "submit_already"
    /\ LET found == Filter(proc[w].student, Terminal)
       IN  IF found # <<>>
           THEN Finish(w, Response(200, "Exam was already submitted", now))
           ELSE Finish(w, Response(404, "No exam attempt found", Null))
    /\ UNCHANGED <<now, attempts, answers, results, extension, served, faults, published, exam, call>>

Submit_already(w) ==
    /\ proc[w].pc = "submit_already"
    /\ LET found == Filter(proc[w].student, Terminal)
       IN  IF found # <<>>
           THEN Finish(w, Response(200, "Exam was already submitted", Head(found).submit_time))
           ELSE Finish(w, Response(404, "No exam attempt found", Null))
    /\ UNCHANGED <<now, attempts, answers, results, extension, served, faults, published, exam, call>>

StudentSubmitExamView(w) ==
    \/ \E s \in Students, payload \in Payloads : Submit_get(w, s, payload)
    \/ Submit_persist(w) \/ Submit_save(w) \/ Submit_already(w)

\* ------------------------------------------- StaffEvaluateAnswerView.create
\* lines 729-745: Answer.objects.get, score range check
Evaluate_get(w, a, q, score) ==
    /\ Accept(w)
    /\ IF <<a, q>> \notin DOMAIN answers
       THEN FinishOp(w, "evaluate", Response(404, "Answer not found", Null))
       ELSE IF score < 0
       THEN FinishOp(w, "evaluate", Response(400, "Score cannot be negative", Null))
       ELSE IF score > QuestionPoints[q]
       THEN FinishOp(w, "evaluate", Response(400, "Score cannot exceed question max points", Null))
       ELSE Set(w, [pc |-> "evaluate_save", op |-> "evaluate", question |-> q, score |-> score,
                    att |-> [NoAttempt EXCEPT !.id = a], ans |-> (q :> answers[<<a, q>>])])
    /\ UNCHANGED <<now, attempts, answers, results, extension, faults, published, exam, call>>

\* lines 748-751: answer.score = score; answer.save()
Evaluate_save(w) ==
    /\ proc[w].pc = "evaluate_save"
    /\ LET q == proc[w].question
           row == [proc[w].ans[q] EXCEPT !.score = proc[w].score]
       IN  answers' = [answers EXCEPT ![<<proc[w].att.id, q>>] = row]
    /\ Set(w, [pc |-> "evaluate_attempt", ans |-> NoAnswers])
    /\ UNCHANGED <<now, attempts, results, extension, served, faults, published, exam, call>>

\* line 754: answer.attempt is loaded, then calculate_exam_result
Evaluate_attempt(w) ==
    /\ proc[w].pc = "evaluate_attempt"
    /\ Set(w, [pc |-> "calc_read", att |-> attempts[proc[w].att.id], ret |-> "done",
               question |-> "none", score |-> Null,
               resp |-> Response(200, "Answer evaluated successfully", Null)])
    /\ UNCHANGED <<now, attempts, answers, results, extension, served, faults, published, exam, call>>

StaffEvaluateAnswerView(w) ==
    \/ \E a \in 1..MaxAttempts, q \in Questions, score \in GradeScores : Evaluate_get(w, a, q, score)
    \/ Evaluate_save(w) \/ Evaluate_attempt(w)

\* --------------------------------- auto_submit_expired_exams (tasks.py)
\* variant with the comparison of line 24 reversed
RECURSIVE Expired_before(_, _)
Expired_before(seq, t) ==
    IF seq = <<>> THEN <<>>
    ELSE (IF t < get_attempt_end_time(Head(seq)) THEN <<Head(seq)>> ELSE <<>>)
         \o Expired_before(Tail(seq), t)

RECURSIVE Expired(_, _)
Expired(seq, t) ==
    IF seq = <<>> THEN <<>>
    ELSE (IF t > get_attempt_end_time(Head(seq)) THEN <<Head(seq)>> ELSE <<>>) \o Expired(Tail(seq), t)

AllInProgress ==
    NewestFirst({i \in AttemptIds : attempts[i].status = "in_progress"}, Len(attempts))

\* lines 12-24: now, the in-progress attempts, those with now > end_time
Sweep_scan ==
    /\ Enter(Sweeper)
    /\ Expired(AllInProgress, now) # <<>>
    /\ Set(Sweeper, [pc |-> "sweep_loop", op |-> "sweep", clock |-> now,
                     queue |-> Expired(AllInProgress, now)])
    /\ UNCHANGED <<now, attempts, answers, results, extension, served, faults, published, exam, call>>

\* lines 25-30: status, submit_time = end_time, save, calculate_exam_result
Sweep_submit ==
    /\ proc[Sweeper].pc = "sweep_loop"
    /\ proc[Sweeper].queue # <<>>
    /\ LET a == Head(proc[Sweeper].queue)
           obj == [a EXCEPT !.status = "auto_submitted", !.submit_time = get_attempt_end_time(a)]
       IN  /\ attempts' = [attempts EXCEPT ![obj.id] = obj]
           /\ Set(Sweeper, [pc |-> "calc_read", att |-> obj, ret |-> "sweep_loop",
                            queue |-> Tail(proc[Sweeper].queue)])
    /\ UNCHANGED <<now, answers, results, extension, served, faults, published, exam, call>>

\* line 33: the task returns
Sweep_return ==
    /\ proc[Sweeper].pc = "sweep_loop"
    /\ proc[Sweeper].queue = <<>>
    /\ proc' = [proc EXCEPT ![Sweeper] = IdleProc]
    /\ UNCHANGED <<now, attempts, answers, results, extension, served, faults, published, exam, call>>

auto_submit_expired_exams == Sweep_scan \/ Sweep_submit \/ Sweep_return

SweepStep == auto_submit_expired_exams \/ calculate_exam_result(Sweeper)

Next ==
    \/ Tick
    \/ \E w \in Workers : StudentStartExamView(w)
    \/ \E w \in Workers : StudentSaveAnswerView(w)
    \/ \E w \in Workers : StudentSubmitExamView(w)
    \/ \E w \in Workers : StaffEvaluateAnswerView(w)
    \/ \E w \in Workers : calculate_exam_result(w)
    \/ \E w \in Workers : Respond(w)
    \/ SweepStep

Spec == Init /\ [][Next]_vars

\* one client and the sweep, with time extensions granted by staff
NextDeadline ==
    \/ Tick
    \/ \E s \in Students, m \in ExtensionMinutes : GrantExtension(s, m)
    \/ StudentStartExamView("w1")
    \/ StudentSubmitExamView("w1")
    \/ calculate_exam_result("w1")
    \/ Respond("w1")
    \/ SweepStep

DeadlineSpec == Init /\ [][NextDeadline]_vars

\* one client, one grader and the periodic sweep; the clock advances and celery
\* beat keeps running the task
NextLive ==
    \/ Tick
    \/ StudentStartExamView("w1")
    \/ StudentSubmitExamView("w1")
    \/ StaffEvaluateAnswerView("w1")
    \/ calculate_exam_result("w1")
    \/ Respond("w1")
    \/ SweepStep

LiveSpec == Init /\ [][NextLive]_vars /\ WF_vars(Tick) /\ WF_vars(SweepStep)

\* ------------------- the sweep under storage errors (tasks.py, auto_submit_exams.py)
CalcPcs == {"calc_read", "calc_answer", "calc_attempt", "calc_result"}

\* Command.handle, lines 12-22: the management command's scan
Command_scan ==
    /\ Enter(Sweeper)
    /\ Expired(AllInProgress, now) # <<>>
    /\ Set(Sweeper, [pc |-> "sweep_loop", op |-> "command", clock |-> now,
                     queue |-> Expired(AllInProgress, now)])
    /\ UNCHANGED <<now, attempts, answers, results, extension, served, faults, published, exam, call>>

\* tasks.py lines 19-31: no try/except, an exception of attempt.save() or of
\* calculate_exam_result leaves the loop and ends the task; the sweep is about to
\* execute attempt.save() or a statement of calculate_exam_result
Sweep_raise ==
    /\ proc[Sweeper].op = "sweep"
    /\ \/ proc[Sweeper].pc \in CalcPcs
       \/ proc[Sweeper].pc = "sweep_loop" /\ proc[Sweeper].queue # <<>>
    /\ faults < MaxFaults
    /\ faults' = faults + 1
    /\ proc' = [proc EXCEPT ![Sweeper] = IdleProc]
    /\ UNCHANGED <<now, attempts, answers, results, extension, served, published, exam, call>>

\* auto_submit_exams.py line 26: attempt.save() is outside the try block
Command_raise ==
    /\ proc[Sweeper].op = "command"
    /\ proc[Sweeper].pc = "sweep_loop" /\ proc[Sweeper].queue # <<>>
    /\ faults < MaxFaults
    /\ faults' = faults + 1
    /\ proc' = [proc EXCEPT ![Sweeper] = IdleProc]
    /\ UNCHANGED <<now, attempts, answers, results, extension, served, published, exam, call>>

\* auto_submit_exams.py lines 29-42: an exception of calculate_exam_result is
\* caught and written to stdout, the loop goes on
Command_except ==
    /\ proc[Sweeper].op = "command"
    /\ proc[Sweeper].pc \in CalcPcs
    /\ faults < MaxFaults
    /\ faults' = faults + 1
    /\ Set(Sweeper, [pc |-> "sweep_loop", att |-> NoAttempt, ans |-> NoAnswers,
                     todo |-> <<>>, ret |-> "none"])
    /\ UNCHANGED <<now, attempts, answers, results, extension, served, published, exam, call>>

StartEnrolled(w) ==
    \/ \E s \in Enrolled : Start_existing(w, s)
    \/ Start_expire(w) \/ Start_submitted(w) \/ Start_eligibility(w)
    \/ Start_create(w) \/ Start_answers(w)

FaultSweepStep == SweepStep \/ Command_scan

\* two students start, the task or the command sweeps, a statement of the sweep
\* may raise
NextFault ==
    \/ Tick
    \/ StartEnrolled("w1")
    \/ calculate_exam_result("w1")
    \/ Respond("w1")
    \/ FaultSweepStep
    \/ Sweep_raise \/ Command_raise \/ Command_except

FaultSpec == Init /\ [][NextFault]_vars /\ WF_vars(Tick) /\ WF_vars(FaultSweepStep)

\* ------------------------------------ saves around the grace window
\* the wall clock, running past the grace window of the latest deadline
TickGrace ==
    /\ now < LatestDeadline(Students) + GracePeriod + MaxOverrun
    /\ now' = now + 1
    /\ UNCHANGED <<attempts, answers, results, extension, proc, served, faults, published, exam, call>>

\* one client that starts and saves, staff granting an extension, and the sweep
NextSave ==
    \/ TickGrace
    \/ \E s \in Students, m \in ExtensionMinutes : GrantExtension(s, m)
    \/ StudentStartExamView("w1")
    \/ StudentSaveAnswerView("w1")
    \/ calculate_exam_result("w1")
    \/ Respond("w1")
    \/ SweepStep

SaveSpec == Init /\ [][NextSave]_vars

\* --------------------------------------- eligibility (publish / unpublish)
\* StaffExamViewSet.publish_exam: the exam has questions whose points add up to
\* total_marks
PublishExam ==
    /\ ~published
    /\ Questions # {}
    /\ SumPoints(Questions) = exam.total_marks
    /\ published' = TRUE
    /\ UNCHANGED <<now, attempts, answers, results, extension, proc, served, faults, exam, call>>

\* StaffExamViewSet.unpublish_exam: refused once the exam has started
UnpublishExam ==
    /\ published
    /\ ~(ExamStart <= now)
    /\ published' = FALSE
    /\ UNCHANGED <<now, attempts, answers, results, extension, proc, served, faults, exam, call>>

StartApplicants(w) ==
    \/ \E s \in Students \cup Outsiders : Start_existing(w, s)
    \/ Start_expire(w) \/ Start_submitted(w) \/ Start_eligibility(w)
    \/ Start_create(w) \/ Start_answers(w)

\* two clients that start, among them a student of another department, while staff
\* publish and unpublish the exam
NextElig ==
    \/ Tick
    \/ PublishExam
    \/ UnpublishExam
    \/ \E w \in Workers : StartApplicants(w)
    \/ \E w \in Workers : calculate_exam_result(w)
    \/ \E w \in Workers : Respond(w)

EligSpec == Init /\ [][NextElig]_vars

\* ------------------------------------- StaffExamViewSet.finalize_results
\* lines 550-556: refused while the exam runs and a student is still in progress
Finalize_check(w) ==
    /\ Accept(w)
    /\ IF ExamEnd > now /\ AllInProgress # <<>>
       THEN FinishOp(w, "finalize", Response(400, "Cannot generate results: exam is still running", Null))
       ELSE Set(w, [pc |-> "finalize_query", op |-> "finalize"])
    /\ UNCHANGED <<now, attempts, answers, results, extension, faults, published, exam, call>>

\* lines 559-565: the submitted and auto_submitted attempts of the exam
Finalize_query(w) ==
    /\ proc[w].pc = "finalize_query"
    /\ Set(w, [pc |-> "finalize_loop",
               queue |-> NewestFirst({i \in AttemptIds : attempts[i].status \in Terminal},
                                     Len(attempts))])
    /\ UNCHANGED <<now, attempts, answers, results, extension, served, faults, published, exam, call>>

\* lines 565-567: calculate_exam_result(attempt) for the next attempt
Finalize_call(w) ==
    /\ proc[w].pc = "finalize_loop"
    /\ proc[w].queue # <<>>
    /\ Set(w, [pc |-> "calc_read", att |-> Head(proc[w].queue), ret |-> "finalize_loop",
               queue |-> Tail(proc[w].queue)])
    /\ UNCHANGED <<now, attempts, answers, results, extension, served, faults, published, exam, call>>

\* lines 573-588: the summary response
Finalize_respond(w) ==
    /\ proc[w].pc = "finalize_loop"
    /\ proc[w].queue = <<>>
    /\ Finish(w, Response(200, "MCQs auto-graded", Len(results)))
    /\ UNCHANGED <<now, attempts, answers, results, extension, served, faults, published, exam, call>>

finalize_results(w) ==
    Finalize_check(w) \/ Finalize_query(w) \/ Finalize_call(w) \/ Finalize_respond(w)

\* a client that starts and submits, staff finalizing the results, and the sweep
NextRecompute ==
    \/ Tick
    \/ StudentStartExamView("w1")
    \/ StudentSubmitExamView("w1")
    \/ finalize_results("w2")
    \/ \E w \in Workers : calculate_exam_result(w)
    \/ \E w \in Workers : Respond(w)
    \/ SweepStep

RecomputeSpec == Init /\ [][NextRecompute]_vars

\* ------------------------------------------------------------ the claims
StepOf(p) == proc'[p] # proc[p]

\* C1: once an attempt's status is submitted or auto_submitted, no step makes it
\* in_progress again or clears its submit_time.
C1_TerminalNeverReverts ==
    [][\A i \in AttemptIds :
          attempts[i].status \in Terminal
          => /\ attempts'[i].status \in Terminal
             /\ attempts'[i].submit_time # Null]_vars

\* C2: when the sweep and a student submit race on one attempt, only the first
\* performs the transition: no step of a submit or of the sweep changes the status
\* or the submit_time of an attempt that is already terminal.
C2_OneFinalizer ==
    [][\A p \in Procs : \A i \in AttemptIds :
          (StepOf(p) /\ proc[p].op \in {"submit", "sweep"} /\ attempts[i].status \in Terminal)
          => /\ attempts'[i].status = attempts[i].status
             /\ attempts'[i].submit_time = attempts[i].submit_time]_vars

\* C3: a save that takes effect after the terminal transition is rejected: no
\* Answer row's answer value changes once its attempt is terminal.
C3_NoSaveAfterTerminal ==
    [][\A k \in DOMAIN answers :
          attempts[k[1]].status \in Terminal => answers'[k].answer = answers[k].answer]_vars

\* C4: a submit on an attempt that is already terminal takes the already-submitted
\* branch, answers 200 with the stored submit_time, and leaves the attempt, its
\* answers and its result untouched.
C4_SubmitIdempotent ==
    [][\A w \in Workers : \A i \in AttemptIds :
          (StepOf(w) /\ attempts[i].status \in Terminal)
          => /\ (proc[w].pc = "idle" /\ proc'[w].op = "submit" /\ proc'[w].student = attempts[i].student)
                => /\ proc'[w].pc = "submit_already"
                   /\ UNCHANGED <<attempts, answers, results>>
             /\ (proc[w].pc = "submit_already" /\ proc[w].student = attempts[i].student)
                => /\ proc'[w].pc = "done"
                   /\ proc'[w].resp = Response(200, "Exam was already submitted", attempts[i].submit_time)
                   /\ UNCHANGED <<attempts, answers, results>>]_vars

\* C4 witness: a second submit has answered with the submit_time of the first.
C4_Witness ==
    \E w \in Workers : \E i \in AttemptIds :
        /\ proc[w].pc = "done"
        /\ proc[w].resp = Response(200, "Exam was already submitted", attempts[i].submit_time)
        /\ attempts[i].status = "submitted"
        /\ i \in ResultIds

\* C5: the sweep's finalization of an in_progress attempt whose resolved deadline is
\* before the sweep's now sets auto_submitted with submit_time = resolved deadline.
C5_SweepSubmitTimeIsDeadline ==
    [][(proc[Sweeper].pc = "sweep_loop" /\ proc'[Sweeper].pc = "calc_read")
       => LET a == Head(proc[Sweeper].queue).id
          IN  (attempts[a].status = "in_progress"
               /\ proc[Sweeper].clock > ResolvedDeadline(attempts[a].student))
              => /\ attempts'[a].status = "auto_submitted"
                 /\ attempts'[a].submit_time = ResolvedDeadline(attempts[a].student)]_vars

\* C6: the sweep changes the status of an attempt only if the attempt is in_progress
\* and the sweep's now is past the resolved deadline, extension included.
C6_NoSweepBeforeDeadline ==
    [][\A i \in AttemptIds :
          (StepOf(Sweeper) /\ attempts'[i].status # attempts[i].status)
          => /\ attempts[i].status = "in_progress"
             /\ proc[Sweeper].clock > ResolvedDeadline(attempts[i].student)]_vars

\* C7: the deadline used for an attempt is exam.end_time plus the student's
\* extension, and the remaining time start reports is max(0, deadline - now) seconds.
C7_DeadlineIncludesExtension ==
    [][/\ \A i \in AttemptIds :
             get_attempt_end_time(attempts[i]) = ResolvedDeadline(attempts[i].student)
       /\ \A w \in Workers :
             (proc[w].pc = "start_create" /\ proc'[w].pc = "start_answers")
             => proc'[w].remaining
                  = Max(0, ResolvedDeadline(proc[w].student) - now) * SecondsPerTick]_vars

\* C8: there is never more than one attempt per (exam, student).
C8_OneAttemptPerStudent ==
    \A i \in AttemptIds : \A j \in AttemptIds :
        attempts[i].student = attempts[j].student => i = j

\* C8 witness: two starts raced past the eligibility check and the second INSERT
\* was refused.
C8_Witness ==
    \E w \in Workers :
        /\ proc[w].pc = "done"
        /\ proc[w].resp.body = "IntegrityError"
        /\ Len(attempts) = 1

\* C9: an attempt another operation holds has an Answer row for every question, and
\* no recompute reads an attempt with a missing Answer.
C9_AnswersExistWhenVisible ==
    \A p \in Procs :
        /\ (proc[p].op # "start" /\ proc[p].att.id \in AttemptIds)
           => \A q \in Questions : <<proc[p].att.id, q>> \in DOMAIN answers
        /\ proc[p].pc \in {"calc_answer", "calc_attempt", "calc_result"}
           => DOMAIN proc[p].ans = Questions

\* C10: with the clock advancing and the sweep running again and again, every
\* attempt that is in_progress eventually is submitted or auto_submitted.
C10_EventuallyTerminal ==
    \A i \in 1..MaxAttempts :
        (i \in AttemptIds /\ attempts[i].status = "in_progress")
        ~> (i \in AttemptIds /\ attempts[i].status \in Terminal)

\* C10 witness: the sweep has finalized an attempt nobody submitted.
C10_Witness ==
    \E i \in AttemptIds :
        /\ attempts[i].status = "auto_submitted"
        /\ attempts[i].submit_time = ExamEnd
        /\ i \in ResultIds
        /\ proc[Sweeper].pc = "idle"

\* C11: a storage error raised while the sweep finalizes one attempt does not end
\* the run: when other scanned attempts are still queued, the sweep stays in its loop
\* and keeps them queued.
C11_FaultDoesNotAbortSweep ==
    [][LET rest == IF proc[Sweeper].pc = "sweep_loop"
                   THEN Tail(proc[Sweeper].queue) ELSE proc[Sweeper].queue
       IN  (faults' > faults /\ rest # <<>>)
           => /\ proc'[Sweeper].pc = "sweep_loop"
              /\ proc'[Sweeper].queue = rest]_vars

\* C12: once storage errors have stopped, an attempt that is auto_submitted without
\* a Result eventually has one.
C12_FailedFinalizeRetried ==
    \A i \in 1..MaxAttempts :
        (i \in AttemptIds /\ attempts[i].status = "auto_submitted" /\ i \notin ResultIds)
        ~> (i \in ResultIds)

\* C13: a save is let through to the answer store only if the student's attempt is
\* in_progress and now <= resolved deadline + 30 seconds; a save that is turned away
\* answers with an error and changes no Answer row.
C13_SaveOnlyInWindow ==
    [][\A w \in Workers :
          /\ (proc[w].pc = "idle" /\ proc'[w].pc = "save_persist")
             => /\ proc'[w].att.id \in AttemptIds
                /\ attempts[proc'[w].att.id].student = proc'[w].student
                /\ attempts[proc'[w].att.id].status = "in_progress"
                /\ now <= ResolvedDeadline(proc'[w].student) + GracePeriod
          /\ (proc[w].pc = "idle" /\ proc'[w].pc = "done" /\ proc'[w].op = "save")
             => /\ proc'[w].resp.status >= 400
                /\ answers' = answers]_vars

\* C13 witness: a save on an in_progress attempt was turned away after the grace
\* window.
C13_Witness ==
    \E w \in Workers : \E i \in AttemptIds :
        /\ proc[w].pc = "done" /\ proc[w].op = "save"
        /\ proc[w].resp = Response(400, "Exam time has expired", Null)
        /\ attempts[i].status = "in_progress"
        /\ now > ResolvedDeadline(attempts[i].student) + GracePeriod

\* C14: a submit that finds the attempt in_progress is accepted whatever the time;
\* it writes every item of the trailing batch into the attempt's Answer row before
\* the status changes, then saves status = submitted with submit_time = now, and its
\* recompute then reads the stored answers.
C14_SubmitPersistsThenFinalizes ==
    [][\A w \in Workers :
          /\ (proc[w].pc = "idle" /\ proc'[w].op = "submit"
              /\ Filter(proc'[w].student, {"in_progress"}) # <<>>)
             => /\ proc'[w].pc \in {"submit_persist", "submit_save"}
                /\ proc'[w].att = Head(Filter(proc'[w].student, {"in_progress"}))
          /\ (proc[w].pc = "submit_persist" /\ StepOf(w))
             => LET item == Head(proc[w].payload)
                    key == <<proc[w].att.id, item.question>>
                IN  /\ attempts' = attempts
                    /\ key \in DOMAIN answers'
                    /\ answers'[key].answer = item.answer
          /\ (proc[w].pc = "submit_save" /\ StepOf(w))
             => /\ proc[w].payload = <<>>
                /\ attempts'[proc[w].att.id].status = "submitted"
                /\ attempts'[proc[w].att.id].submit_time = now
                /\ proc'[w].pc = "calc_read"
          /\ (proc[w].pc = "calc_read" /\ proc[w].op = "submit" /\ StepOf(w))
             => \A q \in DOMAIN proc'[w].ans :
                    proc'[w].ans[q] = answers[<<proc[w].att.id, q>>]]_vars

\* C15: a start that finds the student's attempt in_progress after exam.end_time
\* but before end_time + extension does not auto-submit it.
C15_StartHonoursExtension ==
    [][\A w \in Workers :
          (proc[w].pc = "idle" /\ proc'[w].op = "start"
           /\ Filter(proc'[w].student, {"in_progress"}) # <<>>
           /\ now > ExamEnd /\ now < ResolvedDeadline(proc'[w].student))
          => proc'[w].pc # "start_expire"]_vars

\* C16: a start that finds the student's attempt in_progress and still within its
\* resolved deadline answers 200 "Exam resumed" and changes no attempt, answer or
\* result.
C16_ResumeWithinDeadline ==
    [][\A w \in Workers : \A s \in Enrolled :
          (proc[w].pc = "idle" /\ proc'[w].op = "start" /\ proc'[w].student \in {s, "none"}
           /\ Filter(s, {"in_progress"}) # <<>> /\ now <= ResolvedDeadline(s))
          => /\ proc'[w].pc = "done"
             /\ proc'[w].resp.status = 200
             /\ proc'[w].resp.body = "Exam resumed"
             /\ UNCHANGED <<attempts, answers, results>>]_vars

\* C17: a start for a student whose attempt is submitted or auto_submitted goes to
\* the terminal-attempt query and answers 409, at any time, and changes no attempt,
\* answer or result and creates no attempt.
C17_StartAfterTerminalIs409 ==
    [][\A w \in Workers : \A i \in AttemptIds :
          (StepOf(w) /\ attempts[i].status \in Terminal)
          => /\ (proc[w].pc = "idle" /\ proc'[w].op = "start" /\ proc'[w].student = attempts[i].student)
                => /\ proc'[w].pc = "start_submitted"
                   /\ UNCHANGED <<attempts, answers, results>>
             /\ (proc[w].pc = "start_submitted" /\ proc[w].student = attempts[i].student)
                => /\ proc'[w].pc = "done"
                   /\ proc'[w].resp = Response(409, "You have already submitted this exam", Null)
                   /\ UNCHANGED <<attempts, answers, results>>]_vars

\* C17 witness: after the exam window a start was refused with 409 for a submitted
\* attempt.
C17_Witness ==
    \E w \in Workers : \E i \in AttemptIds :
        /\ proc[w].pc = "done" /\ proc[w].op = "start"
        /\ proc[w].resp.status = 409
        /\ attempts[i].status = "submitted"
        /\ i \in ResultIds
        /\ now > ExamEnd

StoredAnswers(a) == [q \in {x \in Questions : <<a, x>> \in DOMAIN answers} |-> answers[<<a, q>>]]

SameResult(r, f) ==
    /\ r.total_marks = f.total_marks
    /\ r.obtained_marks = f.obtained_marks
    /\ r.percentage = f.percentage
    /\ r.status = f.status
    /\ r.grading_status = f.grading_status
    /\ r.submitted_at = f.submitted_at

\* attempt a has been recomputed over its stored answers: the mcq scores are the
\* auto-evaluated ones and its Result row is the one recompute derives from them
Settled(a) ==
    /\ a \in ResultIds
    /\ \A q \in DOMAIN StoredAnswers(a) :
          QuestionType[q] \in {"mcq", "multiple_mcq"}
          => StoredAnswers(a)[q].score = auto_evaluate_mcq(q, StoredAnswers(a)[q].answer)
    /\ SameResult(ResultOf(a), ResultFields(attempts[a], StoredAnswers(a), Null))

\* C19: a recompute of a terminal attempt that runs undisturbed leaves the attempt
\* settled, and a recompute of a settled attempt changes no Answer score, no Result
\* field and adds no Result row; no two Result rows ever share an attempt or a student.
C19_RecomputeIdempotentUpsert ==
    [][/\ \A k1 \in 1..Len(results') : \A k2 \in 1..Len(results') :
             (results'[k1].attempt = results'[k2].attempt
              \/ results'[k1].student = results'[k2].student) => k1 = k2
       /\ \A p \in Procs :
             \A a \in AttemptIds :
                 (/\ StepOf(p) /\ proc[p].pc \in CalcPcs /\ proc[p].att.id = a
                  /\ proc[p].att.status \in Terminal
                  /\ proc[p].att.submit_time = attempts[a].submit_time
                  /\ proc[p].pc # "calc_read" => proc[p].ans = StoredAnswers(a))
                 => /\ proc[p].pc = "calc_result" => Settled(a)'
                    /\ Settled(a)
                       => /\ answers' = answers
                          /\ Len(results') = Len(results)
                          /\ SameResult(ResultOf(a)', ResultOf(a))]_vars

\* C19 witness: a recompute is about to upsert the Result of a settled attempt, later
\* than the recompute that created it.
C19_Witness ==
    \E p \in Procs :
        /\ proc[p].pc = "calc_result"
        /\ proc[p].att.id \in AttemptIds
        /\ proc[p].att.status \in Terminal
        /\ Settled(proc[p].att.id)
        /\ proc[p].ans = StoredAnswers(proc[p].att.id)
        /\ now > ResultOf(proc[p].att.id).submitted_at

\* C20: every Result row has status pass or fail exactly when its grading_status is
\* fully_graded (pass iff obtained_marks >= passing_marks), and status pending when
\* its grading_status is pending or partially_graded.
C20_StatusFollowsGrading ==
    \A k \in 1..Len(results) :
        /\ results[k].grading_status \in {"pending", "partially_graded", "fully_graded"}
        /\ results[k].grading_status = "fully_graded"
           => results[k].status =
                 (IF results[k].obtained_marks >= exam.passing_marks THEN "pass" ELSE "fail")
        /\ results[k].grading_status # "fully_graded" => results[k].status = "pending"

\* C20 witness: a graded attempt with answers to every question has a passing Result.
C20_Witness ==
    \E k \in 1..Len(results) :
        /\ results[k].grading_status = "fully_graded"
        /\ results[k].status = "pass"
        /\ DOMAIN StoredAnswers(results[k].attempt) = Questions
        /\ \E q \in Questions : QuestionType[q] \in {"descriptive", "coding"}

\* ------------------------------------------------ grading (staff views)
MaxMarks == 2

\* StaffExamViewSet.update: refused once the exam has started
UpdateExam(total, passing) ==
    /\ ~(ExamStart <= now)
    /\ <<exam.total_marks, exam.passing_marks>> # <<total, passing>>
    /\ exam' = [exam EXCEPT !.total_marks = total, !.passing_marks = passing]
    /\ UNCHANGED <<now, attempts, answers, results, extension, proc, served, faults, published, call>>

\* variant of StaffQuestionEvaluateView.create without the upper limit on the score
QuestionEvaluate_get_nolimit(w, a, q, score) ==
    /\ Accept(w)
    /\ IF score < 0
       THEN FinishOp(w, "question_evaluate", Response(400, "Score cannot be negative", Null))
       ELSE IF <<a, q>> \notin DOMAIN answers
       THEN FinishOp(w, "question_evaluate", Response(404, "Answer not found", Null))
       ELSE Set(w, [pc |-> "evaluate_save", op |-> "question_evaluate", question |-> q,
                    score |-> score, att |-> [NoAttempt EXCEPT !.id = a],
                    ans |-> (q :> answers[<<a, q>>])])
    /\ UNCHANGED <<now, attempts, answers, results, extension, faults, published, exam, call>>

\* StaffQuestionEvaluateView.create, lines 806-829: serializer (score >= 0), score <=
\* question.points, Answer.objects.get
QuestionEvaluate_get(w, a, q, score) ==
    /\ Accept(w)
    /\ IF score < 0
       THEN FinishOp(w, "question_evaluate", Response(400, "Score cannot be negative", Null))
       ELSE IF score > QuestionPoints[q]
       THEN FinishOp(w, "question_evaluate", Response(400, "Score cannot exceed points", Null))
       ELSE IF <<a, q>> \notin DOMAIN answers
       THEN FinishOp(w, "question_evaluate", Response(404, "Answer not found", Null))
       ELSE Set(w, [pc |-> "evaluate_save", op |-> "question_evaluate", question |-> q,
                    score |-> score, att |-> [NoAttempt EXCEPT !.id = a],
                    ans |-> (q :> answers[<<a, q>>])])
    /\ UNCHANGED <<now, attempts, answers, results, extension, faults, published, exam, call>>

\* a grader grades an answer of a finished attempt through either staff view, with any
\* score, in and out of the range 0..question.points; lines 826-832 of StaffQuestionEvaluateView.create are the statements of
\* StaffEvaluateAnswerView.create, lines 748-754
GradeFinishedAttempt(w) ==
    \/ \E a \in AttemptIds, q \in Questions, score \in {-1, 0, 1, 2} :
          /\ attempts[a].status \in Terminal
          /\ (Evaluate_get(w, a, q, score) \/ QuestionEvaluate_get(w, a, q, score))
    \/ Evaluate_save(w) \/ Evaluate_attempt(w)

\* one student, one grader and the sweep; staff may edit the exam's marks before it starts
NextGrading ==
    \/ Tick
    \/ \E total \in 0..MaxMarks : UpdateExam(total, ExamPassingMarks)
    \/ StudentStartExamView("w1")
    \/ StudentSubmitExamView("w1")
    \/ GradeFinishedAttempt("w2")
    \/ \E w \in Workers : calculate_exam_result(w)
    \/ \E w \in Workers : Respond(w)
    \/ SweepStep

GradingSpec == Init /\ [][NextGrading]_vars

\* calculate_exam_result, lines 218-221: the sum of the scores that are not None
RECURSIVE GradedSum(_, _)
GradedSum(ans, seq) ==
    IF seq = <<>> THEN 0
    ELSE (IF Head(seq) \in DOMAIN ans /\ ans[Head(seq)].score # Null
          THEN ans[Head(seq)].score ELSE 0) + GradedSum(ans, Tail(seq))

\* C21: every recompute writes a Result whose obtained_marks is the sum of the non-null
\* scores of the attempt's answers, whose total_marks is exam.total_marks and whose
\* percentage is obtained_marks / total_marks * 100, or 0 when total_marks is 0; with an
\* ungraded descriptive answer and no mcq point it is 0 marks, pending, pending.
C21_MarksAndPercentage ==
    [][\A p \in Procs : \A a \in AttemptIds :
          (StepOf(p) /\ proc[p].pc = "calc_result" /\ proc[p].att.id = a)
          => LET r == ResultOf(a)'
                 sum == GradedSum(proc[p].ans, QuestionOrder)
             IN  /\ a \in ResultIds'
                 /\ r.obtained_marks = sum
                 /\ r.total_marks = exam.total_marks
                 /\ r.percentage = IF exam.total_marks = 0 THEN 0
                                   ELSE (sum * 100) \div exam.total_marks
                 /\ (\E q \in DOMAIN proc[p].ans :
                        /\ QuestionType[q] = "descriptive"
                        /\ \A x \in DOMAIN proc[p].ans : proc[p].ans[x].score \in {Null, 0}
                        /\ \A x \in DOMAIN proc[p].ans :
                              QuestionType[x] = "descriptive" => proc[p].ans[x].score = Null)
                    => /\ r.obtained_marks = 0
                       /\ r.grading_status = "pending"
                       /\ r.status = "pending"]_vars

\* C21 witness: after the descriptive answer was graded, the Result of an exam whose
\* total_marks is 0 carries the graded marks, percentage 0 and fully_graded.
C21_Witness ==
    \E k \in 1..Len(results) :
        /\ exam.total_marks = 0
        /\ results[k].total_marks = 0
        /\ results[k].obtained_marks > 0
        /\ results[k].percentage = 0
        /\ results[k].grading_status = "fully_graded"
        /\ \E q \in Questions :
              /\ QuestionType[q] = "descriptive"
              /\ <<results[k].attempt, q>> \in DOMAIN answers
              /\ answers[<<results[k].attempt, q>>].score = QuestionPoints[q]

GradingOps == {"evaluate", "question_evaluate"}

\* C22: when a grading action on a terminal attempt completes, the attempt's Result is
\* the one recompute derives from the answers stored at that moment.
C22_ResultFollowsGrading ==
    [][\A w \in Workers : \A a \in AttemptIds :
          (/\ StepOf(w) /\ proc[w].pc = "calc_result" /\ proc[w].op \in GradingOps
           /\ proc[w].att.id = a /\ proc[w].att.status \in Terminal)
          => /\ a \in ResultIds'
             /\ SameResult(ResultOf(a)', ResultFields(attempts[a], StoredAnswers(a), Null))]_vars

\* C23: the grading_status of an attempt's Result never moves backward in the order
\* pending, partially_graded, fully_graded.
C23_GradingStatusMonotonic ==
    [][\A a \in ResultIds :
          LET GradingRank(gs) == CASE gs = "pending" -> 0 [] gs = "partially_graded" -> 1
                                   [] gs = "fully_graded" -> 2
          IN  /\ a \in ResultIds'
              /\ GradingRank(ResultOf(a)'.grading_status)
                     >= GradingRank(ResultOf(a).grading_status)]_vars

\* ------------------------------------------- objective grading (helpers.py)
\* JSON scalars of answers and options, written type:text
\* (i: integer, s: string, b: boolean)

RawValues == {"i:1", "i:2", "s:1", "s:2", "s:A", "s:b", "s: B ", "s:", "b:true", "b:false"}

\* _norm_token: str(val).strip().lower()
norm_token(val) ==
    CASE val = "i:1" -> "1" [] val = "i:2" -> "2" [] val = "s:1" -> "1" [] val = "s:2" -> "2"
      [] val = "s:A" -> "a" [] val = "s:b" -> "b" [] val = "s: B " -> "b" [] val = "s:" -> ""
      [] val = "b:true" -> "true" [] val = "b:false" -> "false"

\* _is_true: val is True or val == 1 or str(val).lower() == 'true'
is_true(val) == val \in {"b:true", "i:1"}

\* _tokens_from_answer, lines 97-120.  An answer is none, a scalar, a list of items or
\* a dict of entries; an item is None, a scalar or a dict with id / value / text / answer
ItemTokens(item) ==
    LET \* the tokens of the fields of a dict that are not None
        FieldTokens(vals) == {norm_token(vals[k]) : k \in {x \in 1..Len(vals) : vals[x] # None}}
    IN  IF item.kind = "none" THEN {}
        ELSE IF item.kind = "dict"
        THEN FieldTokens(<<item.id, item.value, item.text, item.answer>>)
        ELSE {norm_token(item.v)}

ScalarItem(v) ==
    [kind |-> IF v = None THEN "none" ELSE "scalar", v |-> v,
     id |-> None, value |-> None, text |-> None, answer |-> None]

DictItem(id, text) ==
    [kind |-> "dict", v |-> None, id |-> id, value |-> None, text |-> text, answer |-> None]

RECURSIVE UnionTokens(_)
UnionTokens(items) ==
    IF items = <<>> THEN {} ELSE ItemTokens(Head(items)) \cup UnionTokens(Tail(items))

RECURSIVE TruthyKeys(_)
TruthyKeys(entries) ==
    IF entries = <<>> THEN <<>>
    ELSE (IF is_true(Head(entries).v) THEN <<ScalarItem(Head(entries).k)>> ELSE <<>>)
         \o TruthyKeys(Tail(entries))

tokens_from_answer(student_answer) ==
    IF student_answer.kind = "none" THEN {}
    ELSE IF student_answer.kind = "list" THEN UnionTokens(student_answer.items)
    ELSE IF student_answer.kind = "dict"
    THEN LET truthy_keys == TruthyKeys(student_answer.entries)
         IN  IF truthy_keys # <<>> THEN UnionTokens(truthy_keys)
             ELSE UnionTokens([k \in 1..Len(student_answer.entries) |->
                                  ScalarItem(student_answer.entries[k].v)])
    ELSE UnionTokens(<<ScalarItem(student_answer.v)>>)

\* _extract_correct_tokens_from_options, lines 123-153
OptionTokens(option, idx) ==
    LET \* str(idx) and chr(65 + idx) of an option position, normalized
        IndexToken(i) == CASE i = 0 -> "0" [] i = 1 -> "1" [] i = 2 -> "2" [] i = 3 -> "3"
        LetterToken(i) == CASE i = 0 -> "a" [] i = 1 -> "b" [] i = 2 -> "c"
    IN  {norm_token(t) : t \in {x \in {option.id, option.value, option.text} :
                                   x # None /\ norm_token(x) # ""}}
        \cup {IndexToken(idx), IndexToken(idx + 1), LetterToken(idx)}

extract_correct_tokens_from_options(question) ==
    UNION {OptionTokens(question.options[k], k - 1) :
              k \in {x \in 1..Len(question.options) : question.options[x].isCorrect}}

\* auto_evaluate_mcq line 165: the normalized, non-blank explicit correct_answers
ExplicitTokens(question) ==
    {norm_token(question.correct_answers[k]) :
        k \in {x \in 1..Len(question.correct_answers) :
                  norm_token(question.correct_answers[x]) # ""}}

\* the correct set of a multiple_mcq question, line 166
CorrectSet(question) ==
    IF ExplicitTokens(question) # {} THEN ExplicitTokens(question)
    ELSE extract_correct_tokens_from_options(question)

\* variant that scores an mcq answer like a multiple_mcq one, on set equality
evaluate_mcq_exact(question, student_answer) ==
    IF question.type \in {"mcq", "multiple_mcq"}
       /\ extract_correct_tokens_from_options(question) # {}
       /\ extract_correct_tokens_from_options(question) = tokens_from_answer(student_answer)
    THEN question.points ELSE 0

\* variant that gives a multiple_mcq answer the points when it contains the correct set
evaluate_mcq_superset(question, student_answer) ==
    IF question.type = "mcq"
    THEN (IF extract_correct_tokens_from_options(question) \cap tokens_from_answer(student_answer) # {}
          THEN question.points ELSE 0)
    ELSE IF CorrectSet(question) # {} /\ CorrectSet(question) \subseteq tokens_from_answer(student_answer)
    THEN question.points ELSE 0

\* auto_evaluate_mcq, lines 156-170, on a question row and an answer payload
evaluate_mcq(question, student_answer) ==
    IF question.type = "mcq"
    THEN LET correct_tokens == extract_correct_tokens_from_options(question)
             student_tokens == tokens_from_answer(student_answer)
         IN  IF correct_tokens # {} /\ (correct_tokens \cap student_tokens) # {}
             THEN question.points ELSE 0
    ELSE IF question.type = "multiple_mcq"
    THEN LET explicit == ExplicitTokens(question)
             correct_answers == IF explicit # {} THEN explicit
                                ELSE extract_correct_tokens_from_options(question)
             student_answers == tokens_from_answer(student_answer)
         IN  IF correct_answers # {} /\ correct_answers = student_answers
             THEN question.points ELSE 0
    ELSE 0

\* the question rows and answer payloads the grading functions are evaluated on
GradePoints == 2

QuestionInputs ==
    LET OptionInputs ==
            [id : {None, "i:1", "i:2"}, value : {None}, text : {"s:A", "s:b"}, isCorrect : BOOLEAN]
    IN
    [type : {"mcq", "multiple_mcq"}, points : {GradePoints},
     options : {<<o1, o2>> : o1 \in OptionInputs, o2 \in OptionInputs},
     correct_answers : {<<>>, <<"s:">>, <<"i:1">>, <<"i:1", "s:2">>}]

AnswerInputs ==
    LET ItemInputs ==
            {ScalarItem(v) : v \in {None, "i:1", "s:2", "s:A"}} \cup {DictItem("i:2", "s:b")}
        EntryInputs == [k : {"s:1", "s:2"}, v : {"b:true", "b:false", "s:A"}]
        AnswerPayload(kind, v, items, entries) ==
            [kind |-> kind, v |-> v, items |-> items, entries |-> entries]
    IN
    {AnswerPayload("none", None, <<>>, <<>>)}
    \cup {AnswerPayload("scalar", v, <<>>, <<>>) : v \in RawValues}
    \cup {AnswerPayload("list", None, items, <<>>) :
             items \in {<<>>} \cup {<<i>> : i \in ItemInputs}
                       \cup {<<i, j>> : i \in ItemInputs, j \in ItemInputs}}
    \cup {AnswerPayload("dict", None, <<>>, entries) :
             entries \in {<<>>} \cup {<<e>> : e \in EntryInputs}
                         \cup {<<e, f>> : e \in EntryInputs, f \in EntryInputs}}

\* auto_evaluate_mcq is called on a question and an answer
Call_auto_evaluate_mcq ==
    /\ call.fn = "auto_evaluate_mcq"
    /\ ~call.done
    /\ call' = [call EXCEPT !.out = evaluate_mcq(call.arg.question, call.arg.answer),
                          !.done = TRUE]
    /\ UNCHANGED <<now, attempts, answers, results, extension, proc, served, faults, published, exam>>

InitScore ==
    /\ InitTables
    /\ call \in [fn : {"auto_evaluate_mcq"}, arg : [question : QuestionInputs, answer : AnswerInputs],
                 out : {Null}, done : {FALSE}]

ScoreSpec == InitScore /\ [][Call_auto_evaluate_mcq]_vars

\* C24: for an mcq question the score is the question's points exactly when the tokens
\* of the options flagged correct and the tokens of the submitted answer intersect, and 0
\* otherwise; a null or empty answer and a question without a correct option score 0.
C24_McqScore ==
    (call.done /\ call.arg.question.type = "mcq")
    => LET question == call.arg.question
           answer == call.arg.answer
           hit == extract_correct_tokens_from_options(question) \cap tokens_from_answer(answer) # {}
       IN  /\ call.out = IF hit THEN question.points ELSE 0
           /\ answer.kind = "none" => call.out = 0
           /\ (answer.kind = "scalar" /\ answer.v = "s:") => call.out = 0
           /\ (answer.kind \in {"list", "dict"} /\ answer.items = <<>> /\ answer.entries = <<>>)
              => call.out = 0
           /\ (\A k \in 1..Len(question.options) : ~question.options[k].isCorrect) => call.out = 0

\* C24 witness: an mcq answer given as a list that names the correct option by its id
\* earned the points of the question.
C24_Witness ==
    /\ call.out = GradePoints
    /\ call.arg.question.type = "mcq"
    /\ call.arg.answer.kind = "list"
    /\ \E k \in 1..Len(call.arg.question.options) :
          /\ call.arg.question.options[k].isCorrect
          /\ call.arg.question.options[k].id # None
          /\ norm_token(call.arg.question.options[k].id) \in tokens_from_answer(call.arg.answer)

\* C25 as stated: for a multiple_mcq question the score is the question's points exactly
\* when the submitted token set equals the correct set (the explicit correct_answers when
\* non-empty, else the tokens of the options flagged correct), and 0 otherwise.
C25_MultipleMcqScore_Stated ==
    (call.done /\ call.arg.question.type = "multiple_mcq")
    => call.out = IF tokens_from_answer(call.arg.answer) = CorrectSet(call.arg.question)
                  THEN call.arg.question.points ELSE 0

\* C25 amended: for a multiple_mcq question the score is the question's points exactly
\* when the correct set is not empty and the submitted token set equals it, and 0 for
\* every strict subset, strict superset or other set; the correct set is the normalized
\* explicit correct_answers when that is non-empty, else the tokens of the flagged options.
C25_MultipleMcqScore ==
    (call.done /\ call.arg.question.type = "multiple_mcq")
    => LET question == call.arg.question
           submitted == tokens_from_answer(call.arg.answer)
           correct == IF ExplicitTokens(question) # {} THEN ExplicitTokens(question)
                      ELSE extract_correct_tokens_from_options(question)
       IN  /\ call.out = IF correct # {} /\ submitted = correct THEN question.points ELSE 0
           /\ (submitted \subseteq correct /\ submitted # correct) => call.out = 0
           /\ (correct \subseteq submitted /\ submitted # correct) => call.out = 0

\* C25 witness: a multiple_mcq answer equal to the explicit correct_answers (two
\* tokens) earned the points, with option flags that alone would give another set.
C25_Witness ==
    /\ call.out = GradePoints
    /\ call.arg.question.type = "multiple_mcq"
    /\ Cardinality(ExplicitTokens(call.arg.question)) = 2
    /\ tokens_from_answer(call.arg.answer) = ExplicitTokens(call.arg.question)
    /\ extract_correct_tokens_from_options(call.arg.question) # ExplicitTokens(call.arg.question)

\* C26: a grading request whose score is below 0 or above question.points is answered
\* with an error by both staff views and changes no Answer and no Result, and a score
\* that is saved lies in 0..question.points; so every Answer's score is null or within
\* 0..question.points.
C26_ScoreWithinPoints ==
    [][/\ \A k \in DOMAIN answers' :
             answers'[k].score = Null
             \/ (0 <= answers'[k].score /\ answers'[k].score <= QuestionPoints[k[2]])
       /\ \A w \in Workers :
             (StepOf(w) /\ proc[w].pc = "idle" /\ proc'[w].op \in GradingOps)
             => IF proc'[w].pc = "evaluate_save"
                THEN /\ 0 <= proc'[w].score
                     /\ proc'[w].score <= QuestionPoints[proc'[w].question]
                ELSE /\ proc'[w].resp.status \in {400, 404}
                     /\ UNCHANGED <<attempts, answers, results>>]_vars

\* C26 witness: each staff view has refused a score above the question's points for an
\* answer that exists; here the second view, with the attempt's Result in place.
C26_Witness ==
    \E w \in Workers :
        /\ proc[w].pc = "done"
        /\ proc[w].op = "question_evaluate"
        /\ proc[w].resp = Response(400, "Score cannot exceed points", Null)
        /\ ResultIds # {}
        /\ \E k \in DOMAIN answers : answers[k].score # Null

\* ------------------------------------------- result publication and student reads
PublishActions == {"publish", "unpublish"}

\* StaffResultPublishView.update, line 901: result = self.get_object()
ResultPublish_get(w, a, action) ==
    /\ Accept(w)
    /\ IF a \notin ResultIds
       THEN FinishOp(w, "result_publish", Response(404, "Not found", <<>>))
       ELSE Set(w, [pc |-> "result_publish_save", op |-> "result_publish",
                    result |-> [ResultOf(a) EXCEPT !.is_published = (action = "publish")]])
    /\ UNCHANGED <<now, attempts, answers, results, extension, faults, published, exam, call>>

\* line 918: result.save() writes every field of the loaded instance
ResultPublish_save(w) ==
    /\ proc[w].pc = "result_publish_save"
    /\ results' = [k \in 1..Len(results) |->
                      IF results[k].attempt = proc[w].result.attempt
                      THEN proc[w].result ELSE results[k]]
    /\ Finish(w, Response(200, IF proc[w].result.is_published THEN "Result published"
                               ELSE "Result unpublished", <<>>))
    /\ UNCHANGED <<now, attempts, answers, extension, served, faults, published, exam, call>>

StaffResultPublishView(w) ==
    \/ \E a \in 1..MaxAttempts, action \in PublishActions : ResultPublish_get(w, a, action)
    \/ ResultPublish_save(w)

\* StaffBulkPublishResultsView.create, lines 945-957: the count of results that are not
\* fully graded, or the unpublish update
BulkPublish_check(w, action) ==
    /\ Accept(w)
    /\ IF action = "publish"
       THEN /\ IF \E k \in 1..Len(results) : results[k].grading_status # "fully_graded"
               THEN FinishOp(w, "bulk_publish", Response(400, "Cannot publish", <<>>))
               ELSE Set(w, [pc |-> "bulk_publish_update", op |-> "bulk_publish"])
            /\ UNCHANGED results
       ELSE /\ results' = [k \in 1..Len(results) |-> [results[k] EXCEPT !.is_published = FALSE]]
            /\ FinishOp(w, "bulk_publish", Response(200, "All results unpublished successfully", <<>>))
    /\ UNCHANGED <<now, attempts, answers, extension, faults, published, exam, call>>

\* line 952: results.update(is_published=True)
BulkPublish_update(w) ==
    /\ proc[w].pc = "bulk_publish_update"
    /\ results' = [k \in 1..Len(results) |-> [results[k] EXCEPT !.is_published = TRUE]]
    /\ Finish(w, Response(200, "All results published successfully", <<>>))
    /\ UNCHANGED <<now, attempts, answers, extension, served, faults, published, exam, call>>

StaffBulkPublishResultsView(w) ==
    \/ \E action \in PublishActions : BulkPublish_check(w, action)
    \/ BulkPublish_update(w)

RECURSIVE ResultsWhere(_, _, _)
ResultsWhere(rows, s, published_only) ==
    IF rows = <<>> THEN <<>>
    ELSE (IF Head(rows).student = s /\ (published_only => Head(rows).is_published)
          THEN <<Head(rows)>> ELSE <<>>) \o ResultsWhere(Tail(rows), s, published_only)

\* StudentMyResultsView.get_queryset: Result.objects.filter(student=..., is_published=True)
StudentMyResultsView(w, s) ==
    /\ Accept(w)
    /\ FinishOp(w, "my_results", Response(200, "results", ResultsWhere(results, s, TRUE)))
    /\ UNCHANGED <<now, attempts, answers, results, extension, faults, published, exam, call>>

\* StudentExamResultView.get_object: Result.objects.get(exam_id=..., student=...)
StudentExamResultView(w, s) ==
    /\ Accept(w)
    /\ IF ResultsWhere(results, s, FALSE) # <<>>
       THEN FinishOp(w, "exam_result", Response(200, "result", ResultsWhere(results, s, FALSE)))
       ELSE FinishOp(w, "exam_result", Response(404, "Result not found", <<>>))
    /\ UNCHANGED <<now, attempts, answers, results, extension, faults, published, exam, call>>

\* a student takes the exam and reads results; staff grade, publish and unpublish
NextVisibility ==
    \/ Tick
    \/ StudentStartExamView("w1")
    \/ StudentSubmitExamView("w1")
    \/ \E s \in Students : StudentMyResultsView("w1", s)
    \/ \E s \in Students : StudentExamResultView("w1", s)
    \/ GradeFinishedAttempt("w2")
    \/ StaffResultPublishView("w2")
    \/ StaffBulkPublishResultsView("w2")
    \/ \E w \in Workers : calculate_exam_result(w)
    \/ \E w \in Workers : Respond(w)
    \/ SweepStep

VisibilitySpec == Init /\ [][NextVisibility]_vars

\* C27: every Result returned to a student, by the result list or by the per-exam
\* result, has is_published = true.
C27_StudentSeesOnlyPublished ==
    \A w \in Workers :
        (proc[w].pc = "done" /\ proc[w].op \in {"my_results", "exam_result"})
        => \A k \in 1..Len(proc[w].resp.value) : proc[w].resp.value[k].is_published

\* --------------------------------------------------- batches of answer items
MaxBatchItems == 2

\* items of a save or submit payload: a question of the exam or an unknown id, the
\* answer and code keys present, null or missing
BatchPayloads ==
    LET BatchItems ==
            [question : {"q1", "qx"}, answer : {Absent, None, "opt1"}, code : {Absent, "code1"}]
            \cup {[question |-> None, answer |-> "opt1", code |-> Absent]}
    IN  SeqsUpTo(BatchItems, MaxBatchItems)

\* a student who starts, saves batches and submits with a trailing batch
NextBatch ==
    \/ Tick
    \/ StudentStartExamView("w1")
    \/ \E s \in Students, payload \in BatchPayloads : Save_get("w1", s, payload)
    \/ Save_persist("w1") \/ Save_respond("w1")
    \/ \E s \in Students, payload \in BatchPayloads : Submit_get("w1", s, payload)
    \/ Submit_persist("w1") \/ Submit_save("w1") \/ Submit_already("w1")
    \/ calculate_exam_result("w1")
    \/ Respond("w1")
    \/ SweepStep

BatchSpec == Init /\ [][NextBatch]_vars

PersistPcs == {"save_persist", "submit_persist"}

\* C28: no Answer row ever holds a null answer; an item whose answer is null stores the
\* empty value and still stores the item's code; rows created at start hold the empty value.
C28_NoNullAnswer ==
    [][/\ \A k \in DOMAIN answers' : answers'[k].answer # None
       /\ \A k \in DOMAIN answers' \ DOMAIN answers : answers'[k].answer = EmptyAnswer
       /\ \A w \in Workers :
             (StepOf(w) /\ proc[w].pc \in PersistPcs)
             => LET item == Head(proc[w].payload)
                    key == <<proc[w].att.id, item.question>>
                IN  (key \in DOMAIN answers /\ item.answer = None)
                    => /\ answers'[key].answer = EmptyAnswer
                       /\ item.code # Absent => answers'[key].code = item.code]_vars

\* C28 witness: a row that held an answer now holds the empty value and the code of a
\* saved item, with the save acknowledged.
C28_Witness ==
    \E w \in Workers : \E k \in DOMAIN answers :
        /\ proc[w].pc = "done" /\ proc[w].op = "save" /\ proc[w].resp.value = MaxBatchItems
        /\ answers[k].answer = EmptyAnswer
        /\ answers[k].code = "code1"
        /\ \A j \in DOMAIN answers : j # k => answers[j] = [answer |-> EmptyAnswer, code |-> None, score |-> Null]

RawDepartments ==
    {None, "", "*", "all", "Any", "CSE", " cse ", "Computer Science",
     "Computer Science Engineering", "IT", "ME"}

\* _norm_department: lower case, every run of other characters becomes one blank, trimmed
norm_department(value) ==
    CASE value \in {None, "", "*"} -> ""
      [] value \in {"all"} -> "all"
      [] value \in {"Any", "any"} -> "any"
      [] value \in {"CSE", " cse ", "cse"} -> "cse"
      [] value \in {"Computer Science", "computer science"} -> "computer science"
      [] value \in {"Computer Science Engineering", "computer science engineering"}
            -> "computer science engineering"
      [] value \in {"IT", "it"} -> "it"
      [] value \in {"ME", "me"} -> "me"

\* _DEPARTMENT_ALIASES, the entries whose short form occurs among the inputs
DEPARTMENT_ALIASES ==
    {<<"cse", "computer science">>,
     <<"computer science engineering", "computer science">>,
     <<"it", "information technology">>}

\* _expand_department_tokens
expand_department_tokens(value) ==
    LET norm == norm_department(value)
    IN  IF norm = "" THEN {}
        ELSE {norm} \cup {al[2] : al \in {x \in DEPARTMENT_ALIASES : x[1] = norm}}
                    \cup {al[1] : al \in {x \in DEPARTMENT_ALIASES : x[2] = norm}}

\* Python's `u in a` on the normalized texts that occur
IsSubstring(u, a) ==
    \/ u = a
    \/ <<u, a>> \in {<<"computer science", "computer science engineering">>}

RECURSIVE AllowedTokens(_)
AllowedTokens(allowed_list) ==
    IF allowed_list = <<>> THEN {}
    ELSE (IF norm_department(Head(allowed_list)) = "" THEN {}
          ELSE expand_department_tokens(norm_department(Head(allowed_list))))
         \cup AllowedTokens(Tail(allowed_list))

\* is_department_allowed, lines 48-94, on a list of allowed departments
department_allowed(user_department, allowed_departments) ==
    IF allowed_departments = <<>> THEN TRUE
    ELSE IF \E k \in 1..Len(allowed_departments) :
               /\ norm_department(allowed_departments[k]) # ""
               /\ norm_department(allowed_departments[k]) \in {"all", "any", "everyone", "*"}
    THEN TRUE
    ELSE LET allowed_tokens == AllowedTokens(allowed_departments)
             user_tokens == expand_department_tokens(user_department)
         IN  IF allowed_tokens = {} THEN TRUE
             ELSE IF user_tokens = {} THEN FALSE
             ELSE IF user_tokens \cap allowed_tokens # {} THEN TRUE
             ELSE \E u \in user_tokens : \E a \in allowed_tokens :
                     IsSubstring(u, a) \/ IsSubstring(a, u)

MaxDepartments == 2

Call_is_department_allowed ==
    /\ call.fn = "is_department_allowed"
    /\ ~call.done
    /\ call' = [call EXCEPT !.out = department_allowed(call.arg.user_department,
                                                       call.arg.allowed_departments),
                            !.done = TRUE]
    /\ UNCHANGED <<now, attempts, answers, results, extension, proc, served, faults, published, exam>>

InitDepartment ==
    /\ InitTables
    /\ call \in [fn : {"is_department_allowed"},
                 arg : [user_department : RawDepartments,
                        allowed_departments : SeqsUpTo(RawDepartments, MaxDepartments)],
                 out : {Null}, done : {FALSE}]

DepartmentSpec == InitDepartment /\ [][Call_is_department_allowed]_vars

\* the text of a department after case and whitespace normalization
CaseFolded(value) ==
    IF value = "*" THEN "*" ELSE norm_department(value)

\* C30: the check allows when the list is empty, when it holds a wildcard token (all,
\* any, *), or when the student's department equals an allowed entry after case and
\* whitespace normalization or through the alias table in either direction; it denies a
\* student without department when the list is not empty and holds no wildcard.
C30_DepartmentCheck ==
    call.done
    => LET user == call.arg.user_department
           allowed == call.arg.allowed_departments
           wildcard == \E k \in 1..Len(allowed) : CaseFolded(allowed[k]) \in {"all", "any", "*"}
           aliased(x, y) == <<x, y>> \in DEPARTMENT_ALIASES \/ <<y, x>> \in DEPARTMENT_ALIASES
           matches == \E k \in 1..Len(allowed) :
                         /\ CaseFolded(user) # ""
                         /\ \/ CaseFolded(user) = CaseFolded(allowed[k])
                            \/ aliased(CaseFolded(user), CaseFolded(allowed[k]))
       IN  /\ (allowed = <<>> \/ wildcard \/ matches) => call.out = TRUE
           /\ (CaseFolded(user) = "" /\ allowed # <<>> /\ ~wildcard) => call.out = FALSE

\* ------------------------------------------------ recompute and submit_time
\* C31: whenever a Result exists for an attempt, the attempt is submitted or
\* auto_submitted and Result.submitted_at is the attempt's submit_time, also after a
\* grader evaluated an answer of an attempt that is still in progress.
C31_ResultOnlyForSubmitted ==
    \A a \in ResultIds :
        /\ attempts[a].status \in Terminal
        /\ attempts[a].submit_time # Null
        /\ ResultOf(a).submitted_at = attempts[a].submit_time

\* C32: once every interleaved grading action, submit and sweep has completed, the
\* Result of a finished attempt on which a grader has scored a manual answer carries the
\* obtained_marks, grading_status and status that recompute yields over the stored
\* answers, and attempt.obtained_score equals Result.obtained_marks.
C32_NoLostRecompute ==
    InFlight = 0
    => \A a \in ResultIds :
          (/\ attempts[a].status \in Terminal
           /\ \E q \in Manual(StoredAnswers(a)) : StoredAnswers(a)[q].score # Null)
          => LET fields == ResultFields(attempts[a], StoredAnswers(a), Null)
             IN  /\ ResultOf(a).obtained_marks = fields.obtained_marks
                 /\ ResultOf(a).grading_status = fields.grading_status
                 /\ ResultOf(a).status = fields.status
                 /\ attempts[a].obtained_score = ResultOf(a).obtained_marks

\* C33: an mcq answer that names only options not flagged correct, by id or text, and
\* names no option flagged correct, scores 0, also when the id of an incorrect option is
\* the zero-based or one-based position of the correct one.
C33_IncorrectOptionScoresZero ==
    LET question == call.arg.question
        \* the normalized id and text of the options whose flag is `flag`
        NamedBy(flag) ==
            {norm_token(x) :
                x \in {v \in UNION {{question.options[k].id, question.options[k].text} :
                                     k \in {i \in 1..Len(question.options) :
                                               question.options[i].isCorrect = flag}} :
                          v # None}}
    IN  (/\ call.done
         /\ question.type = "mcq"
         /\ tokens_from_answer(call.arg.answer) # {}
         /\ tokens_from_answer(call.arg.answer) \subseteq NamedBy(FALSE)
         /\ tokens_from_answer(call.arg.answer) \cap NamedBy(TRUE) = {})
        => call.out = 0

\* C34: for a multiple_mcq question with an empty correct_answers list, a submission
\* that selects exactly the options flagged correct, by their ids, earns the points.
C34_FlaggedOptionsByIdEarnPoints ==
    LET question == call.arg.question
        flagged == {k \in 1..Len(question.options) : question.options[k].isCorrect}
    IN  (/\ call.done
         /\ question.type = "multiple_mcq"
         /\ question.correct_answers = <<>>
         /\ flagged # {}
         /\ \A k \in flagged : question.options[k].id # None
         /\ tokens_from_answer(call.arg.answer)
               = {norm_token(question.options[k].id) : k \in flagged})
        => call.out = question.points

\* --------------------------------------------- submit_time of finished attempts
\* C35: an attempt in status auto_submitted has submit_time equal to its resolved
\* deadline, whichever path finalized it (the sweep, the management command, or a start
\* request that finds the in_progress attempt expired), and the submit that finalizes an
\* attempt stores the time of that submit as submit_time.
C35_SubmitTimeOfFinishedAttempt ==
    [][/\ \A a \in AttemptIds' :
             attempts'[a].status = "auto_submitted"
             => attempts'[a].submit_time = ResolvedDeadline(attempts'[a].student)
       /\ \A w \in Workers : \A a \in AttemptIds :
             (StepOf(w) /\ proc[w].pc = "submit_save" /\ proc[w].att.id = a)
             => /\ attempts'[a].status = "submitted"
                /\ attempts'[a].submit_time = now]_vars

\* ------------------------------------------- grading status of a list of answers
MaxAnswers == 3

\* variant that counts the graded answers of every question type
grading_status_of_all(rows) ==
    LET IsManual(a) == a.type \in {"descriptive", "coding"}
        Graded(a) == a.score # Null
        manual_answers == SelectSeq(rows, IsManual)
        graded_count == Len(SelectSeq(rows, Graded))
    IN  IF manual_answers = <<>> THEN "fully_graded"
        ELSE IF graded_count = 0 THEN "pending"
        ELSE IF graded_count < Len(rows) THEN "partially_graded"
        ELSE "fully_graded"

\* _compute_grading_status, lines 173-191, on a list of answers given by the type of
\* their question and their score
grading_status_of(rows) ==
    LET IsManual(a) == a.type \in {"descriptive", "coding"}
        Graded(a) == a.score # Null
        manual_answers == SelectSeq(rows, IsManual)
        graded_count == Len(SelectSeq(manual_answers, Graded))
    IN  IF manual_answers = <<>> THEN "fully_graded"
        ELSE IF graded_count = 0 THEN "pending"
        ELSE IF graded_count < Len(manual_answers) THEN "partially_graded"
        ELSE "fully_graded"

\* _compute_grading_status is called on the answers of an attempt
Call_compute_grading_status ==
    /\ call.fn = "compute_grading_status"
    /\ ~call.done
    /\ call' = [call EXCEPT !.out = grading_status_of(call.arg), !.done = TRUE]
    /\ UNCHANGED <<now, attempts, answers, results, extension, proc, served, faults, published, exam>>

InitStatus ==
    /\ InitTables
    /\ LET AnswerRows == [type : {"mcq", "multiple_mcq", "descriptive", "coding"},
                          score : {Null, 0, 1}]
       IN  call \in [fn : {"compute_grading_status"}, arg : SeqsUpTo(AnswerRows, MaxAnswers),
                     out : {Null}, done : {FALSE}]

StatusSpec == InitStatus /\ [][Call_compute_grading_status]_vars

\* C36: the grading status of a list of answers depends only on the answers of
\* descriptive and coding questions: fully_graded when there are none, pending when none
\* of them has a score, partially_graded when some but not all have one, fully_graded
\* when all have one; the scores of mcq and multiple_mcq answers do not affect it.
C36_GradingStatusOfManualAnswers ==
    call.done
    => LET manual == {k \in 1..Len(call.arg) : call.arg[k].type \in {"descriptive", "coding"}}
           scored == {k \in manual : call.arg[k].score # Null}
       IN  /\ manual = {} => call.out = "fully_graded"
           /\ (manual # {} /\ scored = {}) => call.out = "pending"
           /\ (scored # {} /\ scored # manual) => call.out = "partially_graded"
           /\ (manual # {} /\ scored = manual) => call.out = "fully_graded"

\* C36 witness: of two manual answers one is graded, next to an mcq answer without a
\* score, and the status is partially_graded.
C36_Witness ==
    /\ call.done
    /\ call.out = "partially_graded"
    /\ Len(call.arg) = 3
    /\ \E i, j, k \in 1..3 :
          /\ call.arg[i].type = "descriptive" /\ call.arg[i].score # Null
          /\ call.arg[j].type = "coding" /\ call.arg[j].score = Null
          /\ call.arg[k].type = "mcq" /\ call.arg[k].score = Null

\* ------------------------------------------------------- what recompute writes
\* C37: a statement of recompute changes no score of a descriptive or coding answer, no
\* answer or code payload of any answer, and no Result's is_published.
C37_RecomputeFrame ==
    [][\A p \in Procs :
          (StepOf(p) /\ proc[p].pc \in CalcPcs)
          => /\ \A k \in DOMAIN answers :
                   /\ answers'[k].answer = answers[k].answer
                   /\ answers'[k].code = answers[k].code
                   /\ QuestionType[k[2]] \in {"descriptive", "coding"}
                      => answers'[k].score = answers[k].score
             /\ \A a \in ResultIds : ResultOf(a)'.is_published = ResultOf(a).is_published]_vars

\* ------------------------------------------------- publication and grading
\* C38: a published Result is fully graded, in every state reached through bulk publish,
\* single-result publish, unpublish, grading and recompute.
C38_PublishedIsFullyGraded ==
    \A k \in 1..Len(results) : results[k].is_published => results[k].grading_status = "fully_graded"

\* ------------------------------------------- StaffQuestionViewSet (views.py)
MaxRevisions == 1

QuestionWrites == {"question_create", "question_update", "question_destroy"}

\* create, lines 631-665; update, 667-677; destroy, 679-689: the statements before the
\* write.  get_object answers 404 for an unknown question, the started exam is refused,
\* create refuses points that would exceed exam.total_marks
Question_check(w, kind, q) ==
    /\ Accept(w)
    /\ IF kind = "question_create" /\ q \in DOMAIN exam.questions
       THEN FALSE
       ELSE IF kind # "question_create" /\ q \notin DOMAIN exam.questions
       THEN FinishOp(w, kind, Response(404, "Not found", Null))
       ELSE IF ExamStart <= now
       THEN FinishOp(w, kind, Response(400, "Cannot change questions after exam has started", Null))
       ELSE IF kind = "question_create"
               /\ SumPoints(DOMAIN exam.questions) + QuestionPoints[q] > exam.total_marks
       THEN FinishOp(w, kind, Response(400, "Cannot add question: marks would exceed", Null))
       ELSE IF kind = "question_update" /\ exam.questions[q] >= MaxRevisions
       THEN FALSE
       ELSE Set(w, [pc |-> "question_save", op |-> kind, question |-> q])
    /\ UNCHANGED <<now, attempts, answers, results, extension, faults, published, exam, call>>

\* serializer.save(exam=exam, order=...), line 664; super().update, line 677;
\* super().destroy, line 689, which deletes the question's Answer rows with it
\* (Answer.question, on_delete=CASCADE)
Question_save(w) ==
    /\ proc[w].pc = "question_save"
    /\ LET q == proc[w].question
           rows == exam.questions
       IN  CASE proc[w].op = "question_create" ->
                  /\ exam' = [exam EXCEPT !.questions = (q :> 0) @@ rows]
                  /\ Finish(w, Response(201, "Created", Null))
                  /\ UNCHANGED answers
             [] proc[w].op = "question_update" ->
                  /\ IF q \in DOMAIN rows
                     THEN /\ exam' = [exam EXCEPT !.questions[q] = rows[q] + 1]
                          /\ Finish(w, Response(200, "Updated", Null))
                     ELSE /\ UNCHANGED exam
                          /\ Finish(w, Response(404, "Not found", Null))
                  /\ UNCHANGED answers
             [] proc[w].op = "question_destroy" ->
                  /\ exam' = [exam EXCEPT !.questions = [x \in DOMAIN rows \ {q} |-> rows[x]]]
                  /\ answers' = [k \in {x \in DOMAIN answers : x[2] # q} |-> answers[k]]
                  /\ Finish(w, Response(204, "Deleted", Null))
    /\ UNCHANGED <<now, attempts, results, extension, served, faults, published, call>>

StaffQuestionViewSet(w) ==
    \/ \E kind \in QuestionWrites, q \in Questions : Question_check(w, kind, q)
    \/ Question_save(w)

\* staff edit the questions while a student starts the exam
NextQuestions ==
    \/ Tick
    \/ \E total \in 0..MaxMarks : UpdateExam(total, ExamPassingMarks)
    \/ StudentStartExamView("w1")
    \/ StaffQuestionViewSet("w2")
    \/ \E w \in Workers : Respond(w)

QuestionSpec == Init /\ [][NextQuestions]_vars

\* C39: a question create, update or delete that is checked when exam.start_time <= now
\* is answered with an error and changes nothing; no step adds, changes or removes a
\* question of the exam once an attempt exists; and the Answer rows of an attempt whose
\* start has completed are those of the exam's questions, one to one.
C39_QuestionsFrozenAfterStart ==
    [][/\ \A w \in Workers :
             (StepOf(w) /\ proc[w].pc = "idle" /\ proc'[w].op \in QuestionWrites /\ ExamStart <= now)
             => /\ proc'[w].pc = "done"
                /\ proc'[w].resp.status \in {400, 404}
                /\ exam' = exam
       /\ attempts # <<>> => exam'.questions = exam.questions
       /\ \A a \in AttemptIds' :
             (\A w \in Workers : proc'[w].op = "start" => proc'[w].pc \in {"idle", "done"})
             => {q \in Questions : <<a, q>> \in DOMAIN answers'} = DOMAIN exam'.questions]_vars

====
